---- MODULE Spec2Model ----
(***************************************************************************)
(* Model of StaticSiteStack.__init__ (specter_static_site/                 *)
(* static_site_stack.py): the constructor declares the constructs of a     *)
(* static-site deployment unit one statement after another.  The state is  *)
(* the constructor's arguments, its local variables, the position in its   *)
(* body and the construct graph declared so far.                           *)
(*                                                                         *)
(* Python strings are sequences of one-character strings, so that          *)
(* str.replace, the `or` default and truthiness are computed, not assumed. *)
(* An Optional[str] argument is a record [some, val]; None has some=FALSE. *)
(***************************************************************************)
EXTENDS Integers, Sequences, FiniteSets, TLC

\* Longest domain name / dashboard name drawn for a build.
MaxLen == 3

\* Characters of the names: a letter and the dot that replace() rewrites.
Alphabet == {"a", "."}

StrsUpTo(n) == UNION {[1..k -> Alphabet] : k \in 0..n}

None == [some |-> FALSE, val |-> <<>>]
Some(s) == [some |-> TRUE, val |-> s]

\* Python truthiness of an Optional[str]: None and "" are both falsy.
Truthy(o) == o.some /\ o.val # <<>>

\* Python `a or b` on an Optional[str] a and a str b.
Or(a, b) == IF Truthy(a) THEN a.val ELSE b

\* str.replace(old, new) for one-character old and new: every occurrence,
\* scanned left to right.
RECURSIVE Replace(_, _, _)
Replace(s, old, new) ==
    IF s = <<>> THEN <<>>
    ELSE <<IF Head(s) = old THEN new ELSE Head(s)>> \o Replace(Tail(s), old, new)

\* The mutation replaces the dots of the default (the domain name) only.
ResolvedDashboardNameDefaultOnly(dashboard, domain) ==
    IF Truthy(dashboard) THEN dashboard.val ELSE Replace(domain, ".", "-")

\* resolved_dashboard_name = (dashboard_name or domain_name).replace(".", "-")
ResolvedDashboardName(dashboard, domain) ==
    Replace(Or(dashboard, domain), ".", "-")

\* f"www.{domain_name}"
Www(domain) == <<"w", "w", "w", ".">> \o domain

\* f"https://{domain_name}"
SiteUrlOf(domain) == <<"h", "t", "t", "p", "s", ":", "/", "/">> \o domain

\* f"Static site hosting for {domain_name}" (the fixed prefix is one token).
DescriptionOf(domain) == <<"Static site hosting for ">> \o domain

(***************************************************************************)
(* Arguments of a build.                                                   *)
(***************************************************************************)
\* A domain name is not empty and neither starts nor ends with a dot.
DomainNames ==
    {d \in StrsUpTo(MaxLen) : d # <<>> /\ d[1] # "." /\ d[Len(d)] # "."}
DashboardNames == {None} \cup {Some(s) : s \in StrsUpTo(MaxLen)}
DistPaths == {<<"d", "i", "s", "t">>}
HostedZoneIds == {None, Some(<<>>), Some(<<"Z", "1">>)}
CertificateArns == {None, Some(<<>>), Some(<<"a", "r", "n">>)}
WebAclIds == {None, Some(<<"w", "a", "f">>)}

VARIABLES
    pc,                       \* statement of __init__ about to run
    domain_name, dist_path, hosted_zone_id, certificate_arn, web_acl_id,
    dashboard_name,           \* the keyword arguments
    description,              \* the stack's description (super().__init__)
    resolved_dashboard_name,  \* local
    hosted_zone,              \* local: None or the id of the imported zone
    certificate,              \* local: None (unbound) or the certificate's id
    graph,                    \* constructs declared in the stack, in order
    suppressions,             \* cdk-nag suppressions added
    error,                    \* exception raised by __init__, or "none"
    live,                     \* ids of the entities existing on the platform
    objects                   \* ids of the buckets holding objects

args == <<domain_name, dist_path, hosted_zone_id, certificate_arn, web_acl_id,
          dashboard_name>>
locals == <<description, resolved_dashboard_name, hosted_zone, certificate>>
platform == <<live, objects>>
vars == <<pc, args, locals, graph, suppressions, error, platform>>

(***************************************************************************)
(* The constructs, as the constructor declares them.  A reference to       *)
(* another construct is that construct's id.                               *)
(***************************************************************************)

\* The mutation gives the origin-log bucket the content bucket's removal
\* arguments.
S3AccessLogsBucketDestroyed ==
    [id |-> "S3AccessLogsBucket", kind |-> "bucket", imported |-> FALSE,
     block_public_access |-> "BLOCK_ALL", encryption |-> "S3_MANAGED",
     enforce_ssl |-> TRUE, removal_policy |-> "DESTROY",
     auto_delete_objects |-> TRUE,
     lifecycle_rules |-> <<[expiration_days |-> 180]>>]

S3AccessLogsBucket ==
    [id |-> "S3AccessLogsBucket", kind |-> "bucket", imported |-> FALSE,
     block_public_access |-> "BLOCK_ALL", encryption |-> "S3_MANAGED",
     enforce_ssl |-> TRUE, removal_policy |-> "RETAIN",
     auto_delete_objects |-> FALSE,
     lifecycle_rules |-> <<[expiration_days |-> 180]>>]

CloudFrontLogsBucket ==
    [id |-> "CloudFrontLogsBucket", kind |-> "bucket", imported |-> FALSE,
     block_public_access |-> "BLOCK_ALL", encryption |-> "KMS_MANAGED",
     enforce_ssl |-> TRUE, removal_policy |-> "RETAIN",
     auto_delete_objects |-> FALSE,
     object_ownership |-> "BUCKET_OWNER_PREFERRED",
     lifecycle_rules |-> <<[expiration_days |-> 180]>>]

\* The mutation leaves enforce_ssl out of the content bucket (its default).
SiteBucketNoSsl ==
    [id |-> "SiteBucket", kind |-> "bucket", imported |-> FALSE,
     block_public_access |-> "BLOCK_ALL", encryption |-> "S3_MANAGED",
     enforce_ssl |-> FALSE, removal_policy |-> "DESTROY",
     auto_delete_objects |-> TRUE,
     server_access_logs_bucket |-> "S3AccessLogsBucket", versioned |-> TRUE,
     lifecycle_rules |->
         <<[abort_incomplete_multipart_upload_after_days |-> 1,
            noncurrent_version_expiration_days |-> 30]>>]

SiteBucket ==
    [id |-> "SiteBucket", kind |-> "bucket", imported |-> FALSE,
     block_public_access |-> "BLOCK_ALL", encryption |-> "S3_MANAGED",
     enforce_ssl |-> TRUE, removal_policy |-> "DESTROY",
     auto_delete_objects |-> TRUE,
     server_access_logs_bucket |-> "S3AccessLogsBucket", versioned |-> TRUE,
     lifecycle_rules |->
         <<[abort_incomplete_multipart_upload_after_days |-> 1,
            noncurrent_version_expiration_days |-> 30]>>]

\* route53.HostedZone.from_hosted_zone_attributes(self, "Zone", ...)
Zone(zone_id, domain) ==
    [id |-> "Zone", kind |-> "hosted_zone", imported |-> TRUE,
     hosted_zone_id |-> zone_id, zone_name |-> domain]

\* acm.Certificate.from_certificate_arn(self, "Cert", certificate_arn)
Cert(arn) ==
    [id |-> "Cert", kind |-> "certificate", imported |-> TRUE,
     certificate_arn |-> arn]

\* acm.Certificate(self, "SiteCertificate", ...)
SiteCertificate(domain, zone) ==
    [id |-> "SiteCertificate", kind |-> "certificate", imported |-> FALSE,
     domain_name |-> domain, subject_alternative_names |-> <<Www(domain)>>,
     validation |-> [method |-> "DNS", hosted_zone |-> zone]]

ErrorResponse(status) ==
    [http_status |-> status, response_http_status |-> 200,
     response_page_path |-> "/index.html", ttl_minutes |-> 5]

\* The mutation does not pass web_acl_id on to the distribution.
SiteDistributionNoAcl(domain, cert, web_acl) ==
    [id |-> "SiteDistribution", kind |-> "distribution", imported |-> FALSE,
     origin |-> [type |-> "S3BucketOrigin", access |-> "origin_access_control",
                 bucket |-> "SiteBucket"],
     viewer_protocol_policy |-> "REDIRECT_TO_HTTPS",
     response_headers_policy |-> "SECURITY_HEADERS",
     domain_names |-> <<domain, Www(domain)>>,
     certificate |-> cert,
     default_root_object |-> "index.html",
     error_responses |-> <<ErrorResponse(403), ErrorResponse(404)>>,
     web_acl_id |-> None]

\* cloudfront.Distribution(self, "SiteDistribution", ...)
SiteDistribution(domain, cert, web_acl) ==
    [id |-> "SiteDistribution", kind |-> "distribution", imported |-> FALSE,
     origin |-> [type |-> "S3BucketOrigin", access |-> "origin_access_control",
                 bucket |-> "SiteBucket"],
     viewer_protocol_policy |-> "REDIRECT_TO_HTTPS",
     response_headers_policy |-> "SECURITY_HEADERS",
     domain_names |-> <<domain, Www(domain)>>,
     certificate |-> cert,
     default_root_object |-> "index.html",
     error_responses |-> <<ErrorResponse(403), ErrorResponse(404)>>,
     web_acl_id |-> web_acl]

\* cloudwatch.Metric(namespace="AWS/CloudFront", ...) on a distribution's id
Metric(name, dist, stat) ==
    [namespace |-> "AWS/CloudFront", metric_name |-> name,
     dimensions_map |-> [DistributionId |-> dist],
     statistic |-> stat, period_minutes |-> 5]

\* cloudwatch.Alarm(self, id, ...)
Alarm(id, metric_name, dist, limit) ==
    [id |-> id, kind |-> "alarm", imported |-> FALSE,
     metric |-> Metric(metric_name, dist, "Average"),
     threshold |-> limit, evaluation_periods |-> 2,
     comparison_operator |-> "GREATER_THAN_THRESHOLD",
     treat_missing_data |-> "NOT_BREACHING"]

\* cloudwatch.Dashboard(self, "SiteDashboard", ...)
SiteDashboard(name, dist) ==
    [id |-> "SiteDashboard", kind |-> "dashboard", imported |-> FALSE,
     dashboard_name |-> name,
     widgets |->
        <<[title |-> "CloudFront Error Rates", width |-> 12,
           left |-> <<Metric("5xxErrorRate", dist, "Average"),
                      Metric("4xxErrorRate", dist, "Average")>>],
          [title |-> "CloudFront Requests", width |-> 12,
           left |-> <<Metric("Requests", dist, "Sum")>>]>>]

\* The mutation declares an alias record without a target.
AliasRecordNoTarget(id, type, zone, name, dist) ==
    [id |-> id, kind |-> "dns_record", imported |-> FALSE,
     record_type |-> type, zone |-> zone, record_name |-> name,
     target |-> [alias |-> "CloudFrontTarget", distribution |-> "none"]]

\* route53.ARecord / route53.AaaaRecord with an alias target; name is the
\* record_name argument, None for the zone apex.
AliasRecord(id, type, zone, name, dist) ==
    [id |-> id, kind |-> "dns_record", imported |-> FALSE,
     record_type |-> type, zone |-> zone, record_name |-> name,
     target |-> [alias |-> "CloudFrontTarget", distribution |-> dist]]

\* s3deploy.BucketDeployment(self, "DeploySite", ...)
DeploySite(path, dist) ==
    [id |-> "DeploySite", kind |-> "deployment", imported |-> FALSE,
     sources |-> <<path>>, destination_bucket |-> "SiteBucket",
     distribution |-> dist, distribution_paths |-> <<"/*">>]

\* CfnOutput(self, id, value=...): value is a literal string or an attribute
\* of another construct.
CfnOutput(id, value) ==
    [id |-> id, kind |-> "output", imported |-> FALSE, value |-> value]

Attr(of, name) == [ref |-> of, attr |-> name]
Literal(s) == [ref |-> "none", literal |-> s]

(***************************************************************************)
(* The body of __init__, statement by statement.                           *)
(***************************************************************************)

\* The mutation declares the alarms and the dashboard before the distribution.
StatementsMonitoringFirst ==
    <<"super().__init__", "resolved_dashboard_name",
      "S3AccessLogsBucket", "CloudFrontLogsBucket", "SiteBucket",
      "hosted_zone", "certificate",
      "High5xxErrorRate", "High4xxErrorRate", "SiteDashboard",
      "SiteDistribution",
      "if hosted_zone",
      "ApexAlias", "ApexAliasIPv6", "WwwAlias", "WwwAliasIPv6",
      "DeploySite", "NagSuppressions",
      "DistributionDomainName", "BucketName", "SiteUrl",
      "CloudFrontLogsBucketName", "S3AccessLogsBucketName">>

\* The mutation checks the certificate ahead of the content bucket.
StatementsCheckBeforeSiteBucket ==
    <<"super().__init__", "resolved_dashboard_name",
      "S3AccessLogsBucket", "CloudFrontLogsBucket",
      "hosted_zone", "certificate", "SiteBucket",
      "SiteDistribution",
      "High5xxErrorRate", "High4xxErrorRate", "SiteDashboard",
      "if hosted_zone",
      "ApexAlias", "ApexAliasIPv6", "WwwAlias", "WwwAliasIPv6",
      "DeploySite", "NagSuppressions",
      "DistributionDomainName", "BucketName", "SiteUrl",
      "CloudFrontLogsBucketName", "S3AccessLogsBucketName">>

\* The statements in the order of the source text.
Statements ==
    <<"super().__init__", "resolved_dashboard_name",
      "S3AccessLogsBucket", "CloudFrontLogsBucket", "SiteBucket",
      "hosted_zone", "certificate",
      "SiteDistribution",
      "High5xxErrorRate", "High4xxErrorRate", "SiteDashboard",
      "if hosted_zone",
      "ApexAlias", "ApexAliasIPv6", "WwwAlias", "WwwAliasIPv6",
      "DeploySite", "NagSuppressions",
      "DistributionDomainName", "BucketName", "SiteUrl",
      "CloudFrontLogsBucketName", "S3AccessLogsBucketName">>

IndexOf(label) == CHOOSE i \in 1..Len(Statements) : Statements[i] = label

\* The statement that follows label; the constructor returns after the last.
After(label) ==
    IF IndexOf(label) = Len(Statements) THEN "returned"
    ELSE Statements[IndexOf(label) + 1]

Init ==
    /\ pc = Statements[1]
    /\ domain_name \in DomainNames
    /\ dist_path \in DistPaths
    /\ hosted_zone_id \in HostedZoneIds
    /\ certificate_arn \in CertificateArns
    /\ web_acl_id \in WebAclIds
    /\ dashboard_name \in DashboardNames
    /\ description = <<>>
    /\ resolved_dashboard_name = <<>>
    /\ hosted_zone = "None"
    /\ certificate = "unbound"
    /\ graph = <<>>
    /\ suppressions = {}
    /\ error = "none"
    /\ live = {}
    /\ objects = {}

\* A construct is added to the stack's scope and the next statement follows.
Declare(label, construct) ==
    /\ pc = label
    /\ graph' = Append(graph, construct)
    /\ pc' = After(label)
    /\ UNCHANGED <<args, locals, suppressions, error, platform>>

SuperInit ==
    /\ pc = "super().__init__"
    /\ description' = DescriptionOf(domain_name)
    /\ pc' = After("super().__init__")
    /\ UNCHANGED <<args, resolved_dashboard_name, hosted_zone, certificate,
                   graph, suppressions, error, platform>>

ResolveDashboardName ==
    /\ pc = "resolved_dashboard_name"
    /\ resolved_dashboard_name' = ResolvedDashboardName(dashboard_name, domain_name)
    /\ pc' = After("resolved_dashboard_name")
    /\ UNCHANGED <<args, description, hosted_zone, certificate, graph,
                   suppressions, error, platform>>

DeclareS3AccessLogsBucket == Declare("S3AccessLogsBucket", S3AccessLogsBucket)

DeclareCloudFrontLogsBucket == Declare("CloudFrontLogsBucket", CloudFrontLogsBucket)

DeclareSiteBucket == Declare("SiteBucket", SiteBucket)

\* `if hosted_zone_id:`
ZoneGiven(zone_id) == Truthy(zone_id)

LookupHostedZone ==
    /\ pc = "hosted_zone"
    /\ IF ZoneGiven(hosted_zone_id)
       THEN /\ graph' = Append(graph, Zone(hosted_zone_id.val, domain_name))
            /\ hosted_zone' = "Zone"
       ELSE /\ hosted_zone' = "None"
            /\ UNCHANGED graph
    /\ pc' = After("hosted_zone")
    /\ UNCHANGED <<args, description, resolved_dashboard_name, certificate,
                   suppressions, error, platform>>

\* The mutation synthesizes a certificate whenever a zone was found.
CertificateBranchZoneFirst(arn, zone) ==
    IF zone # "None" THEN "synthesize"
    ELSE IF Truthy(arn) THEN "import"
    ELSE "raise"

\* `if certificate_arn: ... elif hosted_zone: ... else: raise`
CertificateBranch(arn, zone) ==
    IF Truthy(arn) THEN "import"
    ELSE IF zone # "None" THEN "synthesize"
    ELSE "raise"

ResolveCertificate ==
    /\ pc = "certificate"
    /\ \/ /\ CertificateBranch(certificate_arn, hosted_zone) = "import"
          /\ graph' = Append(graph, Cert(certificate_arn.val))
          /\ certificate' = "Cert"
          /\ pc' = After("certificate")
          /\ UNCHANGED error
       \/ /\ CertificateBranch(certificate_arn, hosted_zone) = "synthesize"
          /\ graph' = Append(graph, SiteCertificate(domain_name, hosted_zone))
          /\ certificate' = "SiteCertificate"
          /\ pc' = After("certificate")
          /\ UNCHANGED error
       \/ /\ CertificateBranch(certificate_arn, hosted_zone) = "raise"
          /\ error' = "ValueError"
          /\ pc' = "raised"
          /\ UNCHANGED <<graph, certificate>>
    /\ UNCHANGED <<args, description, resolved_dashboard_name, hosted_zone,
                   suppressions, platform>>

DeclareDistribution ==
    Declare("SiteDistribution",
            SiteDistribution(domain_name, certificate, web_acl_id))

DeclareHigh5xxErrorRate ==
    Declare("High5xxErrorRate",
            Alarm("High5xxErrorRate", "5xxErrorRate", "SiteDistribution", 5))

DeclareHigh4xxErrorRate ==
    Declare("High4xxErrorRate",
            Alarm("High4xxErrorRate", "4xxErrorRate", "SiteDistribution", 10))

DeclareSiteDashboard ==
    Declare("SiteDashboard",
            SiteDashboard(resolved_dashboard_name, "SiteDistribution"))

\* The mutation declares the alias records whether or not a zone was found.
AliasesWantedAlways(zone) == TRUE

\* `if hosted_zone:` ahead of the alias records
AliasesWanted(zone) == zone # "None"

IfHostedZone ==
    /\ pc = "if hosted_zone"
    /\ pc' = IF AliasesWanted(hosted_zone) THEN After("if hosted_zone")
             ELSE "DeploySite"
    /\ UNCHANGED <<args, locals, graph, suppressions, error, platform>>

DeclareApexAlias ==
    Declare("ApexAlias",
            AliasRecord("ApexAlias", "A", hosted_zone, None, "SiteDistribution"))

DeclareApexAliasIPv6 ==
    Declare("ApexAliasIPv6",
            AliasRecord("ApexAliasIPv6", "AAAA", hosted_zone, None,
                        "SiteDistribution"))

DeclareWwwAlias ==
    Declare("WwwAlias",
            AliasRecord("WwwAlias", "A", hosted_zone, Some(<<"w", "w", "w">>),
                        "SiteDistribution"))

DeclareWwwAliasIPv6 ==
    Declare("WwwAliasIPv6",
            AliasRecord("WwwAliasIPv6", "AAAA", hosted_zone,
                        Some(<<"w", "w", "w">>), "SiteDistribution"))

DeclareDeploySite ==
    Declare("DeploySite", DeploySite(dist_path, "SiteDistribution"))

AddNagSuppressions ==
    /\ pc = "NagSuppressions"
    /\ suppressions' = suppressions \cup
          {[on |-> "CloudFrontLogsBucket", id |-> "AwsSolutions-S1"],
           [on |-> "SiteDistribution", id |-> "AwsSolutions-CFR3"],
           [on |-> "stack", id |-> "AwsSolutions-IAM4"],
           [on |-> "stack", id |-> "AwsSolutions-IAM5"],
           [on |-> "stack", id |-> "AwsSolutions-L1"]}
    /\ pc' = After("NagSuppressions")
    /\ UNCHANGED <<args, locals, graph, error, platform>>

OutputDistributionDomainName ==
    Declare("DistributionDomainName",
            CfnOutput("DistributionDomainName",
                      Attr("SiteDistribution", "distribution_domain_name")))

OutputBucketName ==
    Declare("BucketName", CfnOutput("BucketName", Attr("SiteBucket", "bucket_name")))

OutputSiteUrl ==
    Declare("SiteUrl", CfnOutput("SiteUrl", Literal(SiteUrlOf(domain_name))))

OutputCloudFrontLogsBucketName ==
    Declare("CloudFrontLogsBucketName",
            CfnOutput("CloudFrontLogsBucketName",
                      Attr("CloudFrontLogsBucket", "bucket_name")))

OutputS3AccessLogsBucketName ==
    Declare("S3AccessLogsBucketName",
            CfnOutput("S3AccessLogsBucketName",
                      Attr("S3AccessLogsBucket", "bucket_name")))

(***************************************************************************)
(* The platform's side of the unit's lifecycle: the returned graph is      *)
(* provisioned, and later torn down under the removal policies the         *)
(* constructor declared.                                                   *)
(***************************************************************************)
Constructs == {graph[i] : i \in 1..Len(graph)}

EntityOf(id) == CHOOSE e \in Constructs : e.id = id

\* A construct without a removal_policy argument is deleted with its unit.
RemovalPolicyOf(e) ==
    IF "removal_policy" \in DOMAIN e THEN e.removal_policy ELSE "DESTROY"

\* Teardown deletes an entity unless it is retained; a bucket that still
\* holds objects is deleted only if the unit empties it first.
Deleted(e) ==
    /\ RemovalPolicyOf(e) # "RETAIN"
    /\ (e.kind = "bucket" /\ e.id \in objects) => e.auto_delete_objects

Deploy ==
    /\ pc = "returned"
    /\ live' = {e.id : e \in {c \in Constructs : ~c.imported}}
    /\ objects' = {e.id : e \in {c \in Constructs : c.kind = "bucket"}}
    /\ pc' = "deployed"
    /\ UNCHANGED <<args, locals, graph, suppressions, error>>

Teardown ==
    /\ pc = "deployed"
    /\ live' = {id \in live : ~Deleted(EntityOf(id))}
    /\ objects' = {id \in objects : ~Deleted(EntityOf(id))}
    /\ pc' = "torn_down"
    /\ UNCHANGED <<args, locals, graph, suppressions, error>>

Next ==
    \/ SuperInit
    \/ ResolveDashboardName
    \/ DeclareS3AccessLogsBucket
    \/ DeclareCloudFrontLogsBucket
    \/ DeclareSiteBucket
    \/ LookupHostedZone
    \/ ResolveCertificate
    \/ DeclareDistribution
    \/ DeclareHigh5xxErrorRate
    \/ DeclareHigh4xxErrorRate
    \/ DeclareSiteDashboard
    \/ IfHostedZone
    \/ DeclareApexAlias
    \/ DeclareApexAliasIPv6
    \/ DeclareWwwAlias
    \/ DeclareWwwAliasIPv6
    \/ DeclareDeploySite
    \/ AddNagSuppressions
    \/ OutputDistributionDomainName
    \/ OutputBucketName
    \/ OutputSiteUrl
    \/ OutputCloudFrontLogsBucketName
    \/ OutputS3AccessLogsBucketName
    \/ Deploy
    \/ Teardown

Spec == Init /\ [][Next]_vars

(***************************************************************************)
(* The constructor as one function of its arguments: the graph it has      *)
(* declared when it returns, or when it raises.                            *)
(***************************************************************************)
BuildGraph(domain, path, zone_id, arn, web_acl, dashboard) ==
    LET zone == IF ZoneGiven(zone_id) THEN "Zone" ELSE "None"
        branch == CertificateBranch(arn, zone)
        cert == IF branch = "import" THEN "Cert" ELSE "SiteCertificate"
        dist == "SiteDistribution"
    IN  <<S3AccessLogsBucket, CloudFrontLogsBucket, SiteBucket>>
        \o (IF ZoneGiven(zone_id) THEN <<Zone(zone_id.val, domain)>> ELSE <<>>)
        \o (IF branch = "import" THEN <<Cert(arn.val)>>
            ELSE IF branch = "synthesize" THEN <<SiteCertificate(domain, zone)>>
            ELSE <<>>)
        \o (IF branch = "raise" THEN <<>>
            ELSE <<SiteDistribution(domain, cert, web_acl),
                   Alarm("High5xxErrorRate", "5xxErrorRate", dist, 5),
                   Alarm("High4xxErrorRate", "4xxErrorRate", dist, 10),
                   SiteDashboard(ResolvedDashboardName(dashboard, domain), dist)>>
                 \o (IF AliasesWanted(zone)
                     THEN <<AliasRecord("ApexAlias", "A", zone, None, dist),
                            AliasRecord("ApexAliasIPv6", "AAAA", zone, None, dist),
                            AliasRecord("WwwAlias", "A", zone,
                                        Some(<<"w", "w", "w">>), dist),
                            AliasRecord("WwwAliasIPv6", "AAAA", zone,
                                        Some(<<"w", "w", "w">>), dist)>>
                     ELSE <<>>)
                 \o <<DeploySite(path, dist),
                      CfnOutput("DistributionDomainName",
                                Attr(dist, "distribution_domain_name")),
                      CfnOutput("BucketName", Attr("SiteBucket", "bucket_name")),
                      CfnOutput("SiteUrl", Literal(SiteUrlOf(domain))),
                      CfnOutput("CloudFrontLogsBucketName",
                                Attr("CloudFrontLogsBucket", "bucket_name")),
                      CfnOutput("S3AccessLogsBucketName",
                                Attr("S3AccessLogsBucket", "bucket_name"))>>)

(***************************************************************************)
(* Vocabulary of the properties.                                           *)
(***************************************************************************)
Finished == pc \in {"returned", "deployed", "torn_down"}
Failed == pc = "raised"

CertGiven == Truthy(certificate_arn)
ZoneSupplied == Truthy(hosted_zone_id)

IdsOf(g) == [i \in 1..Len(g) |-> g[i].id]
OfKind(k) == {e \in Constructs : e.kind = k}
Buckets == OfKind("bucket")
DnsRecords == OfKind("dns_record")
Synthesized(k) == {e \in OfKind(k) : ~e.imported}
Chars(str) == {str[i] : i \in 1..Len(str)}
IsPrefix(g, h) == Len(g) <= Len(h) /\ SubSeq(h, 1, Len(g)) = g
Without(g, id) == SelectSeq(g, LAMBDA e : e.id # id)

\* The hostname a record is for: the apex when record_name was not passed.
Host(r) == IF r.record_name.some THEN r.record_name.val ELSE <<"a", "p", "e", "x">>

FourAliasRecords ==
    /\ Cardinality(DnsRecords) = 4
    /\ {<<Host(r), r.record_type>> : r \in DnsRecords}
         = {<<"a", "p", "e", "x">>, <<"w", "w", "w">>} \X {"A", "AAAA"}
    /\ \A r \in DnsRecords :
          /\ r.target.distribution \in {d.id : d \in OfKind("distribution")}
          /\ r.zone \in {z.id : z \in OfKind("hosted_zone")}

LogBucketIds == {"S3AccessLogsBucket", "CloudFrontLogsBucket"}

\* The statement computing resolved_dashboard_name has run.
DashboardResolved == pc \notin {"super().__init__", "resolved_dashboard_name"}

\* str with each dot turned into a dash, position by position.
Dashed(str) == [i \in 1..Len(str) |-> IF str[i] = "." THEN "-" ELSE str[i]]

(***************************************************************************)
(* C1.  A build with neither a certificate reference nor a zone reference  *)
(* fails with the configuration error, and when it fails no construct has  *)
(* been declared: the graph is empty.                                      *)
(***************************************************************************)
C1_FailsBeforeAnyDeclaration ==
    (~CertGiven /\ ~ZoneSupplied) =>
        /\ ~Finished
        /\ Failed => (error = "ValueError" /\ graph = <<>>)

(***************************************************************************)
(* C2.  A build with a zone reference and no certificate reference never   *)
(* fails, and its final graph holds exactly one synthesized certificate    *)
(* (for the domain and its www alias, DNS-validated against the supplied   *)
(* zone) and exactly four alias records, one per {apex, www} x {A, AAAA},  *)
(* each targeting the distribution.                                        *)
(***************************************************************************)
C2_ZoneOnlyBuild ==
    (ZoneSupplied /\ ~CertGiven) =>
        /\ ~Failed
        /\ Finished =>
            /\ Cardinality(Synthesized("certificate")) = 1
            /\ \A c \in Synthesized("certificate") :
                  /\ c.domain_name = domain_name
                  /\ c.subject_alternative_names = <<Www(domain_name)>>
                  /\ c.validation.method = "DNS"
                  /\ \E z \in OfKind("hosted_zone") :
                        /\ z.id = c.validation.hosted_zone
                        /\ z.hosted_zone_id = hosted_zone_id.val
            /\ FourAliasRecords

C2_Witness ==
    /\ ZoneSupplied /\ ~CertGiven /\ pc = "returned"
    /\ Cardinality(DnsRecords) = 4
    /\ Synthesized("certificate") # {}

(***************************************************************************)
(* C3.  A build with a certificate reference and no zone reference never   *)
(* fails and its final graph holds no DNS record; and in every state of    *)
(* every build a DNS record exists only if a zone reference was supplied.  *)
(***************************************************************************)
C3_RecordsOnlyWithZone ==
    /\ (CertGiven /\ ~ZoneSupplied) =>
          (~Failed /\ (Finished => DnsRecords = {}))
    /\ DnsRecords # {} => ZoneSupplied

C3_Witness ==
    /\ CertGiven /\ ~ZoneSupplied /\ pc = "returned"
    /\ DnsRecords = {}
    /\ OfKind("deployment") # {}

(***************************************************************************)
(* C4 as stated.  Without a dashboard name the resolved identifier is the  *)
(* domain name with every dot replaced by a dash; with a dashboard name    *)
(* it is that name, character for character.                               *)
(***************************************************************************)
C4_ExplicitNameVerbatim ==
    DashboardResolved =>
        /\ resolved_dashboard_name =
              IF Truthy(dashboard_name) THEN dashboard_name.val
              ELSE Dashed(domain_name)
        /\ \A d \in OfKind("dashboard") : d.dashboard_name = resolved_dashboard_name

(***************************************************************************)
(* C4 as amended.  The resolved identifier is the dashboard name, or the   *)
(* domain name when no (or an empty) dashboard name is given, with every   *)
(* dot replaced by a dash in either case; an explicit name is used         *)
(* verbatim exactly when it contains no dot.  The dashboard carries the    *)
(* resolved identifier.                                                    *)
(***************************************************************************)
C4_DotsReplacedInEitherName ==
    DashboardResolved =>
        /\ resolved_dashboard_name =
              Dashed(IF Truthy(dashboard_name) THEN dashboard_name.val
                     ELSE domain_name)
        /\ Truthy(dashboard_name) =>
              ((resolved_dashboard_name = dashboard_name.val)
                  <=> ("." \notin Chars(dashboard_name.val)))
        /\ \A d \in OfKind("dashboard") : d.dashboard_name = resolved_dashboard_name

C4_Witness ==
    /\ Truthy(dashboard_name)
    /\ "." \in Chars(dashboard_name.val)
    /\ \E d \in OfKind("dashboard") : "-" \in Chars(d.dashboard_name)

(***************************************************************************)
(* C5.  In every state of every build, failing builds included, each       *)
(* bucket declared so far blocks all public access, is encrypted and       *)
(* enforces TLS.                                                           *)
(***************************************************************************)
C5_BucketsPrivateEncryptedTlsOnly ==
    \A b \in Buckets :
        /\ b.block_public_access = "BLOCK_ALL"
        /\ b.encryption \in {"S3_MANAGED", "KMS_MANAGED"}
        /\ b.enforce_ssl

C5_Witness ==
    /\ pc = "SiteDistribution"
    /\ {b.id : b \in Buckets} = LogBucketIds \cup {"SiteBucket"}

(***************************************************************************)
(* C6.  Every entity is declared once and stays declared; once the unit    *)
(* is provisioned every entity exists; after teardown of a successfully    *)
(* built unit exactly the two log buckets exist, with their contents, and  *)
(* nothing else of the unit does, the content bucket and its objects       *)
(* included.                                                               *)
(***************************************************************************)
C6_Lifecycle ==
    [][ /\ IsPrefix(graph, graph')
        /\ \A i, j \in 1..Len(graph') : graph'[i].id = graph'[j].id => i = j
        /\ pc' = "deployed" =>
              /\ live' = {graph'[i].id : i \in {k \in 1..Len(graph') : ~graph'[k].imported}}
              /\ "SiteBucket" \in objects'
        /\ pc' = "torn_down" =>
              /\ live' = LogBucketIds
              /\ objects' = LogBucketIds ]_vars

C6_Witness ==
    /\ pc = "torn_down"
    /\ live = LogBucketIds
    /\ "SiteBucket" \in {e.id : e \in Constructs}

(***************************************************************************)
(* C7.  The distribution of the final graph carries exactly the firewall   *)
(* reference given, and none when none is given; every other construct of  *)
(* the graph is the same whatever firewall reference is given.             *)
(***************************************************************************)
C7_FirewallOnlyOnDistribution ==
    Finished =>
        /\ Cardinality(OfKind("distribution")) = 1
        /\ \A d \in OfKind("distribution") : d.web_acl_id = web_acl_id
        /\ graph = BuildGraph(domain_name, dist_path, hosted_zone_id,
                              certificate_arn, web_acl_id, dashboard_name)
        /\ \A w \in WebAclIds :
              Without(BuildGraph(domain_name, dist_path, hosted_zone_id,
                                 certificate_arn, w, dashboard_name),
                      "SiteDistribution")
                = Without(graph, "SiteDistribution")

C7_Witness ==
    /\ pc = "returned"
    /\ web_acl_id = Some(<<"w", "a", "f">>)
    /\ \E d \in OfKind("distribution") : d.web_acl_id = Some(<<"w", "a", "f">>)

(***************************************************************************)
(* C8.  Declarations come in the order log buckets, content bucket,        *)
(* certificate resolution, distribution, alarms and dashboard, alias       *)
(* records, deployment action, outputs; so in every state each reference   *)
(* of a declared construct names a construct declared before it: the       *)
(* alarms and all dashboard metrics are on the one distribution of the     *)
(* graph, the alias records and the deployment action target it, and the   *)
(* content bucket logs to the origin-log bucket.                           *)
(***************************************************************************)
Phase(e) ==
    CASE e.kind = "bucket" /\ e.id \in LogBucketIds -> 1
      [] e.kind = "bucket" /\ e.id \notin LogBucketIds -> 2
      [] e.kind \in {"hosted_zone", "certificate"} -> 3
      [] e.kind = "distribution" -> 4
      [] e.kind \in {"alarm", "dashboard"} -> 5
      [] e.kind = "dns_record" -> 6
      [] e.kind = "deployment" -> 7
      [] e.kind = "output" -> 8

DashboardMetrics(d) ==
    UNION {{w.left[k] : k \in 1..Len(w.left)} :
              w \in {d.widgets[i] : i \in 1..Len(d.widgets)}}

Refs(e) ==
    CASE e.kind = "bucket" ->
            IF "server_access_logs_bucket" \in DOMAIN e
            THEN {e.server_access_logs_bucket} ELSE {}
      [] e.kind = "hosted_zone" -> {}
      [] e.kind = "certificate" ->
            IF e.imported THEN {} ELSE {e.validation.hosted_zone}
      [] e.kind = "distribution" -> {e.origin.bucket, e.certificate}
      [] e.kind = "alarm" -> {e.metric.dimensions_map.DistributionId}
      [] e.kind = "dashboard" ->
            {m.dimensions_map.DistributionId : m \in DashboardMetrics(e)}
      [] e.kind = "dns_record" -> {e.zone, e.target.distribution}
      [] e.kind = "deployment" -> {e.destination_bucket, e.distribution}
      [] e.kind = "output" -> {e.value.ref} \ {"none"}

DistributionIds == {d.id : d \in OfKind("distribution")}

C8_DeclaredInOrder ==
    /\ \A i, j \in 1..Len(graph) : i < j => Phase(graph[i]) <= Phase(graph[j])
    /\ \A i \in 1..Len(graph) :
          \A r \in Refs(graph[i]) : \E j \in 1..(i - 1) : graph[j].id = r
    /\ Cardinality(DistributionIds) <= 1
    /\ \A a \in OfKind("alarm") :
          a.metric.dimensions_map.DistributionId \in DistributionIds
    /\ \A d \in OfKind("dashboard") :
          /\ Cardinality(DashboardMetrics(d)) = 3
          /\ \A m \in DashboardMetrics(d) :
                m.dimensions_map.DistributionId \in DistributionIds
    /\ \A r \in DnsRecords : r.target.distribution \in DistributionIds
    /\ \A x \in OfKind("deployment") : x.distribution \in DistributionIds
    /\ \A b \in Buckets :
          b.id = "SiteBucket" => b.server_access_logs_bucket = "S3AccessLogsBucket"

C8_Witness ==
    /\ pc = "returned"
    /\ ZoneSupplied
    /\ Cardinality(OfKind("alarm")) = 2
    /\ DnsRecords # {}
    /\ Cardinality(OfKind("output")) = 5

(***************************************************************************)
(* C9.  A build with both a certificate reference and a zone reference     *)
(* never fails; the distribution binds the external certificate, no        *)
(* certificate is synthesized, and the four alias records are declared.    *)
(***************************************************************************)
C9_ExternalCertificatePreferred ==
    (CertGiven /\ ZoneSupplied) =>
        /\ ~Failed
        /\ Synthesized("certificate") = {}
        /\ Finished =>
            /\ \A d \in OfKind("distribution") :
                  \E c \in OfKind("certificate") :
                      /\ c.id = d.certificate
                      /\ c.imported
                      /\ c.certificate_arn = certificate_arn.val
            /\ OfKind("distribution") # {}
            /\ FourAliasRecords

C9_Witness ==
    /\ CertGiven /\ ZoneSupplied /\ pc = "returned"
    /\ Cardinality(DnsRecords) = 4
    /\ certificate = "Cert"

(***************************************************************************)
(* C10 as stated.  When a build with neither reference raises its error,   *)
(* the graph declared so far is the origin-log bucket and the edge-log     *)
(* bucket and nothing else.                                                *)
(***************************************************************************)
C10_TwoLogBucketsAtFailure ==
    Failed => IdsOf(graph) = <<"S3AccessLogsBucket", "CloudFrontLogsBucket">>

(***************************************************************************)
(* C10 as amended.  The certificate check is reached after exactly three   *)
(* unconditional declarations, the two log buckets and the content         *)
(* bucket: when a build raises its error it was given neither reference    *)
(* and the graph declared so far is those three buckets and nothing else.  *)
(***************************************************************************)
C10_ThreeBucketsAtFailure ==
    /\ pc = "certificate" =>
          /\ IdsOf(Without(graph, "Zone"))
               = <<"S3AccessLogsBucket", "CloudFrontLogsBucket", "SiteBucket">>
          /\ \A i \in 1..Len(graph) : graph[i].id = "Zone" => graph[i].imported
    /\ Failed =>
          /\ ~CertGiven /\ ~ZoneSupplied
          /\ error = "ValueError"
          /\ IdsOf(graph) = <<"S3AccessLogsBucket", "CloudFrontLogsBucket", "SiteBucket">>
          /\ \A i \in 1..Len(graph) : graph[i].kind = "bucket"

C10_Witness ==
    /\ Failed
    /\ Len(graph) = 3
    /\ ~certificate_arn.some /\ ~hosted_zone_id.some

====
